---------------------------- MODULE Spec2Model ----------------------------
(***************************************************************************)
(* A model of the softengineware/supabase-mcp scripts:                     *)
(*   - chunk_text, the sliding-window chunker (fixed_import_transcript.py) *)
(*   - the command-line scripts that talk to the remote database           *)
(*     (import_transcript, import_youtube_data, query_knowledge,           *)
(*     list_all_documents, verify_knowledge_database, list_videos,         *)
(*     setup_knowledge_database)                                           *)
(*   - the MCP server: supabase_lifespan and its four tool handlers        *)
(*                                                                         *)
(* A text is a sequence of one-character strings; " " is the whitespace    *)
(* character.  The remote database is modelled by its observable           *)
(* behaviour: an executed operation either raises or returns data, and an  *)
(* insert that returns stores exactly the row it was given, under a fresh  *)
(* id.                                                                     *)
(***************************************************************************)
EXTENDS Integers, Sequences, FiniteSets, TLC

\* ------------------------------------------------------------------ bounds
\* Longest text handed to chunk_text on its own.
MaxTextLen == 7
\* Largest chunk_size tried; overlap ranges over 0 .. chunk_size - 1.
MaxChunkSize == 3

Alphabet == {"a", "b", " "}

None == "None"

Min(a, b) == IF a <= b THEN a ELSE b

\* All texts of at most n characters over the characters cs.
TextsOver(cs, n) == UNION {[1..k -> cs] : k \in 0..n}
TextsUpTo(n) == TextsOver(Alphabet, n)

\* The (chunk_size, overlap) pairs chunk_text is meant for: range() needs a
\* positive step, the parameter names need 0 <= overlap.
Params == {p \in (1..MaxChunkSize) \X (0..MaxChunkSize) : p[2] < p[1]}

\* --------------------------------------------------------------- chunk_text
\* str.split() with no argument: the maximal runs of non-whitespace.
RECURSIVE SplitFrom(_, _, _)
SplitFrom(t, cur, acc) ==
    IF t = <<>>
    THEN IF cur = <<>> THEN acc ELSE Append(acc, cur)
    ELSE IF Head(t) = " "
         THEN SplitFrom(Tail(t), <<>>, IF cur = <<>> THEN acc ELSE Append(acc, cur))
         ELSE SplitFrom(Tail(t), Append(cur, Head(t)), acc)

split(t) == SplitFrom(t, <<>>, <<>>)

\* " ".join(ws)
RECURSIVE join(_)
join(ws) ==
    IF ws = <<>> THEN <<>>
    ELSE IF Len(ws) = 1 THEN ws[1]
    ELSE ws[1] \o <<" ">> \o join(Tail(ws))

\* Faulty variant: the slice ends one word early, words[i:i+chunk_size-1].
Slice_one_short(ws, lo, hi) == SubSeq(ws, lo + 1, Min(hi - 1, Len(ws)))

\* ws[lo:hi] for 0 <= lo, lo <= hi (Python clips hi to len(ws)).
Slice(ws, lo, hi) == SubSeq(ws, lo + 1, Min(hi, Len(ws)))

\* Faulty variant: the window advances by a whole chunk_size, overlap forgotten.
RangeStep_ignores_overlap(size, ovl) == size

\* The stride of range(0, len(words), chunk_size - overlap).
RangeStep(size, ovl) == size - ovl

\* Faulty variant: the early return is missing, every text goes through the loop.
FitsOneChunk_never(ws, size) == FALSE

\* Faulty variant: a text of exactly chunk_size words is sent through the loop.
FitsOneChunk_strict(ws, size) == Len(ws) < size

\* The early-return test of line 24.
FitsOneChunk(ws, size) == Len(ws) <= size

\* One iteration of the for loop: lines 28-29.
LoopBody(ws, size, k, acc) == Append(acc, join(Slice(ws, k, k + size)))

VARIABLES
    text,        \* chunk_text: the argument text
    chunk_size,  \* chunk_text: the argument chunk_size
    overlap,     \* chunk_text: the argument overlap
    words,       \* chunk_text: the local words
    i,           \* chunk_text: the loop variable of line 27
    chunks,      \* chunk_text: the local chunks
    ct_pc,       \* chunk_text: where the call is ("idle" outside a call)
    ct_result,   \* chunk_text: the returned list (<<>> until it returns)
    prog,        \* the script (or the MCP server) this process runs
    env_url,     \* os.getenv("SUPABASE_URL")
    env_key,     \* os.getenv("SUPABASE_SERVICE_KEY")
    pc,          \* where the process is
    status,      \* "running", "exit0" (ran to its end), "exit1" (sys.exit(1)),
                 \* "raised" (an exception left the top-level function)
    exc,         \* the exception that ended the process (None when none did)
    out,         \* what the process printed, in order
    created,     \* the argument pairs create_client was called with, in order
    client,      \* the local supabase (None before create_client returns)
    calls,       \* the remote table operations executed, in order
    db,          \* the rows of the remote tables
    transcript_text,  \* import_transcript: transcript_data.get("transcript")
    video_id,         \* both importers: the video id
    source_id,        \* both importers: id of the inserted source row
    document_id,      \* both importers: id of the inserted document row
    text_chunks,      \* import_transcript: chunk_text(transcript_text)
    total_chunks,     \* both importers: the local total_chunks
    idx,              \* the loop index of the script's current for loop
    transcript_files, \* import_youtube_data: the files glob found
    file_idx,         \* import_youtube_data: index of the file being processed
    yt_chunks,        \* import_youtube_data: the local chunks of the current file
    ctx,         \* MCP server: the yielded SupabaseContext (client None outside the scope)
    req,         \* MCP server: the latest tool invocation
    served       \* MCP server: number of tool invocations so far

ctVars == <<text, chunk_size, overlap, words, i, chunks, ct_pc, ct_result>>
envVars == <<prog, env_url, env_key>>
runVars == <<pc, status, exc, out>>
remoteVars == <<created, client, calls, db>>
impVars == <<transcript_text, video_id, source_id, document_id, text_chunks,
             total_chunks, idx>>
ytVars == <<transcript_files, file_idx, yt_chunks>>
srvVars == <<ctx, req, served>>

vars == <<ctVars, envVars, runVars, remoteVars, impVars, ytVars, srvVars>>

\* The variables chunk_text does not touch.
notCt == <<envVars, runVars, remoteVars, impVars, ytVars, srvVars>>

\* --------------------------------------------------------- the remote database
EmptyDb == [knowledge_sources |-> {}, knowledge_documents |-> {},
            knowledge_chunks |-> {}, youtube_videos |-> {}, next_id |-> 1]

\* An exception, by its type and message; NoExc when there is none.  RemoteError
\* stands for whatever execute() raises, ClientError for what create_client raises.
Exc(type, msg) == [type |-> type, msg |-> msg]
NoExc == Exc(None, "")

\* No invocation yet.
NoReq == [tool |-> None]

\* The state of a process that runs no script: everything but chunk_text's frame.
Idle ==
    /\ prog = None
    /\ env_url = None
    /\ env_key = None
    /\ pc = "idle"
    /\ status = "running"
    /\ exc = NoExc
    /\ out = <<>>
    /\ created = <<>>
    /\ client = None
    /\ calls = <<>>
    /\ db = EmptyDb
    /\ transcript_text = <<>>
    /\ video_id = None
    /\ source_id = 0
    /\ document_id = 0
    /\ text_chunks = <<>>
    /\ total_chunks = 0
    /\ idx = 0
    /\ transcript_files = <<>>
    /\ file_idx = 0
    /\ yt_chunks = <<>>
    /\ ctx = [client |-> None]
    /\ req = NoReq
    /\ served = 0

\* ------------------------------------------------------ chunk_text, stepwise
ChunkInit ==
    /\ text \in TextsUpTo(MaxTextLen)
    /\ \E p \in Params : chunk_size = p[1] /\ overlap = p[2]
    /\ words = <<>>
    /\ i = 0
    /\ chunks = <<>>
    /\ ct_pc = "split"
    /\ ct_result = <<>>
    /\ Idle

\* lines 21-22
ChunkSplit ==
    /\ ct_pc = "split"
    /\ words' = split(text)
    /\ chunks' = <<>>
    /\ ct_pc' = "check"
    /\ UNCHANGED <<text, chunk_size, overlap, i, ct_result>>
    /\ UNCHANGED notCt

\* lines 24-25
ChunkShort ==
    /\ ct_pc = "check"
    /\ FitsOneChunk(words, chunk_size)
    /\ ct_result' = <<text>>
    /\ ct_pc' = "returned"
    /\ UNCHANGED <<text, chunk_size, overlap, words, i, chunks>>
    /\ UNCHANGED notCt

\* line 27, entering the loop
ChunkLoopEnter ==
    /\ ct_pc = "check"
    /\ ~FitsOneChunk(words, chunk_size)
    /\ i' = 0
    /\ ct_pc' = "loop"
    /\ UNCHANGED <<text, chunk_size, overlap, words, chunks, ct_result>>
    /\ UNCHANGED notCt

\* lines 27-29, one iteration
ChunkIter ==
    /\ ct_pc = "loop"
    /\ i < Len(words)
    /\ chunks' = LoopBody(words, chunk_size, i, chunks)
    /\ i' = i + RangeStep(chunk_size, overlap)
    /\ UNCHANGED <<text, chunk_size, overlap, words, ct_pc, ct_result>>
    /\ UNCHANGED notCt

\* line 31
ChunkReturn ==
    /\ ct_pc = "loop"
    /\ ~(i < Len(words))
    /\ ct_result' = chunks
    /\ ct_pc' = "returned"
    /\ UNCHANGED <<text, chunk_size, overlap, words, i, chunks>>
    /\ UNCHANGED notCt

ChunkNext ==
    \/ ChunkSplit
    \/ ChunkShort
    \/ ChunkLoopEnter
    \/ ChunkIter
    \/ ChunkReturn

SpecChunk == ChunkInit /\ [][ChunkNext]_vars

\* A call of chunk_text runs on: the interpreter takes the next step of the
\* function as long as there is one.
FairChunk == ChunkInit /\ [][ChunkNext]_vars /\ WF_vars(ChunkNext)


\* ------------------------------------------------------- what the scripts share
\* Longest transcript import_transcript reads.
MaxDocLen == 6

\* The transcripts a JSON file can hold; NoneText is a missing "transcript" key.
NoneText == <<None>>
DocTexts == TextsOver({"a", " "}, MaxDocLen) \cup {NoneText}

VideoIds == {"v1", "v2"}

\* What os.getenv can give for the two variables: unset, empty, set.
UrlValues == {None, "", "https://proj.supabase.co"}
KeyValues == {None, "", "service-key"}

\* Python's `not v` for a string or None.
Falsy(v) == v = None \/ v = ""

\* Faulty variant: the credentials count as missing only when both are.
MissingCredentials_both == Falsy(env_url) /\ Falsy(env_key)

\* `if not supabase_url or not supabase_key`
MissingCredentials == Falsy(env_url) \/ Falsy(env_key)

Msg(m, n) == [msg |-> m, arg |-> n]

\* One executed table operation: where in the code, on which table, which
\* operation, with which payload, and whether execute() raised.
Call(site, table, op, payload, raised) ==
    [site |-> site, table |-> table, op |-> op, payload |-> payload, raised |-> raised]

\* The database after an insert that returned: the row, stored under a fresh id.
Stored(d, table, row) ==
    [d EXCEPT ![table] = @ \cup {("id" :> d.next_id) @@ row}, !.next_id = @ + 1]

\* sys.exit(1) after printing msgs.
Exit1(msgs) ==
    /\ out' = out \o msgs
    /\ status' = "exit1"
    /\ pc' = "exited"
    /\ exc' = exc

\* An exception nobody catches ends the process with a traceback.
Uncaught(e) ==
    /\ out' = out
    /\ status' = "raised"
    /\ pc' = "exited"
    /\ exc' = e

\* Running on: the process goes to `next` having printed msgs.
Goto(next, msgs) ==
    /\ out' = out \o msgs
    /\ status' = status
    /\ pc' = next
    /\ exc' = exc

At(p, where) == prog = p /\ status = "running" /\ pc = where

\* The databases a run can start from: an empty one, or one that already holds
\* the youtube_videos row of video "v1" (an earlier import).
InitialDbs ==
    {EmptyDb,
     [EmptyDb EXCEPT !.youtube_videos =
         {[id |-> 1, source_id |-> 0, youtube_id |-> "v1", transcript |-> <<"a">>]},
       !.next_id = 2]}

\* ------------------------------------------------------------ import_transcript
IT == "import_transcript"

\* lines 38-44
IT_Env ==
    /\ At(IT, "start")
    /\ IF MissingCredentials
       THEN Exit1(<<Msg("Error: Missing Supabase credentials in environment variables.", 0)>>)
       ELSE Goto("read", <<>>)
    /\ UNCHANGED <<ctVars, envVars, remoteVars, impVars, ytVars, srvVars>>

\* lines 46-62: the file cannot be read or parsed, or it gives the fields
IT_ReadFile ==
    /\ At(IT, "read")
    /\ \/ /\ Exit1(<<Msg("Error reading transcript file", 0)>>)
          /\ UNCHANGED <<transcript_text, video_id>>
       \/ /\ \E t \in DocTexts, v \in VideoIds \cup {None} :
                /\ transcript_text' = t
                /\ video_id' = v
          /\ Goto("connect", <<>>)
    /\ UNCHANGED <<source_id, document_id, text_chunks, total_chunks, idx>>
    /\ UNCHANGED <<ctVars, envVars, remoteVars, ytVars, srvVars>>

\* lines 64-70
IT_Connect ==
    /\ At(IT, "connect")
    /\ created' = Append(created, <<env_url, env_key>>)
    /\ \/ /\ client' = "client"
          /\ Goto("source", <<>>)
       \/ /\ client' = client
          /\ Exit1(<<Msg("Error connecting to Supabase", 0)>>)
    /\ UNCHANGED <<calls, db>>
    /\ UNCHANGED <<ctVars, envVars, impVars, ytVars, srvVars>>

\* lines 74-85
IT_source_data == [source_type |-> "youtube", video_id |-> video_id]

\* lines 72-93
IT_InsertSource ==
    /\ At(IT, "source")
    /\ \/ /\ calls' = Append(calls, Call("source", "knowledge_sources", "insert",
                                         IT_source_data, FALSE))
          /\ db' = Stored(db, "knowledge_sources", IT_source_data)
          /\ source_id' = db.next_id
          /\ Goto("document", <<Msg("Created source with ID", db.next_id)>>)
       \/ /\ calls' = Append(calls, Call("source", "knowledge_sources", "insert",
                                         IT_source_data, TRUE))
          /\ db' = db
          /\ source_id' = source_id
          /\ Exit1(<<Msg("Error creating source record", 0)>>)
    /\ UNCHANGED <<created, client>>
    /\ UNCHANGED <<transcript_text, video_id, document_id, text_chunks, total_chunks, idx>>
    /\ UNCHANGED <<ctVars, envVars, ytVars, srvVars>>

\* lines 97-106
IT_document_data ==
    [source_id |-> source_id, document_type |-> "transcript",
     content |-> transcript_text, video_id |-> video_id]

\* Faulty variant: a failed document insert deletes the source row again.
IT_InsertDocument_rollback ==
    /\ At(IT, "document")
    /\ \/ /\ calls' = Append(calls, Call("document", "knowledge_documents", "insert",
                                         IT_document_data, FALSE))
          /\ db' = Stored(db, "knowledge_documents", IT_document_data)
          /\ document_id' = db.next_id
          /\ Goto("youtube_check", <<Msg("Created document with ID", db.next_id)>>)
       \/ /\ calls' = calls \o <<Call("document", "knowledge_documents", "insert",
                                       IT_document_data, TRUE),
                                  Call("document", "knowledge_sources", "delete",
                                       [id |-> source_id], FALSE)>>
          /\ db' = [db EXCEPT !.knowledge_sources = {r \in @ : r.id # source_id}]
          /\ document_id' = document_id
          /\ Exit1(<<Msg("Error creating document record", 0)>>)
    /\ UNCHANGED <<created, client>>
    /\ UNCHANGED <<transcript_text, video_id, source_id, text_chunks, total_chunks, idx>>
    /\ UNCHANGED <<ctVars, envVars, ytVars, srvVars>>

\* lines 95-114
IT_InsertDocument ==
    /\ At(IT, "document")
    /\ \/ /\ calls' = Append(calls, Call("document", "knowledge_documents", "insert",
                                         IT_document_data, FALSE))
          /\ db' = Stored(db, "knowledge_documents", IT_document_data)
          /\ document_id' = db.next_id
          /\ Goto("youtube_check", <<Msg("Created document with ID", db.next_id)>>)
       \/ /\ calls' = Append(calls, Call("document", "knowledge_documents", "insert",
                                         IT_document_data, TRUE))
          /\ db' = db
          /\ document_id' = document_id
          /\ Exit1(<<Msg("Error creating document record", 0)>>)
    /\ UNCHANGED <<created, client>>
    /\ UNCHANGED <<transcript_text, video_id, source_id, text_chunks, total_chunks, idx>>
    /\ UNCHANGED <<ctVars, envVars, ytVars, srvVars>>

\* lines 118-129
IT_youtube_data ==
    [source_id |-> source_id, youtube_id |-> video_id, transcript |-> transcript_text]

\* What select("*").eq("youtube_id", v) returns from the table.
VideosWithId(d, v) == {r \in d.youtube_videos : r.youtube_id = v}

\* Faulty variant: the existence check stands outside the try block.
IT_YoutubeCheck_uncaught ==
    /\ At(IT, "youtube_check")
    /\ \/ /\ calls' = Append(calls, Call("youtube_check", "youtube_videos", "select",
                                         [youtube_id |-> video_id], FALSE))
          /\ IF VideosWithId(db, video_id) # {}
             THEN Goto("chunk_text", <<Msg("YouTube video record already exists, skipping creation", 0)>>)
             ELSE Goto("youtube_insert", <<>>)
       \/ /\ calls' = Append(calls, Call("youtube_check", "youtube_videos", "select",
                                         [youtube_id |-> video_id], TRUE))
          /\ Uncaught(Exc("RemoteError", ""))
    /\ UNCHANGED <<created, client, db>>
    /\ UNCHANGED <<ctVars, envVars, impVars, ytVars, srvVars>>

\* Faulty variant: the result of the existence check is not looked at.
IT_YoutubeCheck_ignores_result ==
    /\ At(IT, "youtube_check")
    /\ \/ /\ calls' = Append(calls, Call("youtube_check", "youtube_videos", "select",
                                         [youtube_id |-> video_id], FALSE))
          /\ Goto("youtube_insert", <<>>)
       \/ /\ calls' = Append(calls, Call("youtube_check", "youtube_videos", "select",
                                         [youtube_id |-> video_id], TRUE))
          /\ Goto("chunk_text", <<Msg("Warning: Issue with YouTube video record", 0)>>)
    /\ UNCHANGED <<created, client, db>>
    /\ UNCHANGED <<ctVars, envVars, impVars, ytVars, srvVars>>

\* lines 131-137 and 140-142: the existence check
IT_YoutubeCheck ==
    /\ At(IT, "youtube_check")
    /\ \/ /\ calls' = Append(calls, Call("youtube_check", "youtube_videos", "select",
                                         [youtube_id |-> video_id], FALSE))
          /\ IF VideosWithId(db, video_id) # {}
             THEN Goto("chunk_text", <<Msg("YouTube video record already exists, skipping creation", 0)>>)
             ELSE Goto("youtube_insert", <<>>)
       \/ /\ calls' = Append(calls, Call("youtube_check", "youtube_videos", "select",
                                         [youtube_id |-> video_id], TRUE))
          /\ Goto("chunk_text", <<Msg("Warning: Issue with YouTube video record", 0)>>)
    /\ UNCHANGED <<created, client, db>>
    /\ UNCHANGED <<ctVars, envVars, impVars, ytVars, srvVars>>

\* Faulty variant: a failed insert of the video record ends the process.
IT_YoutubeInsert_fatal ==
    /\ At(IT, "youtube_insert")
    /\ \/ /\ calls' = Append(calls, Call("youtube_insert", "youtube_videos", "insert",
                                         IT_youtube_data, FALSE))
          /\ db' = Stored(db, "youtube_videos", IT_youtube_data)
          /\ Goto("chunk_text", <<Msg("Created YouTube video record", 0)>>)
       \/ /\ calls' = Append(calls, Call("youtube_insert", "youtube_videos", "insert",
                                         IT_youtube_data, TRUE))
          /\ db' = db
          /\ Exit1(<<Msg("Warning: Issue with YouTube video record", 0)>>)
    /\ UNCHANGED <<created, client>>
    /\ UNCHANGED <<ctVars, envVars, impVars, ytVars, srvVars>>

\* lines 138-142: the insert of the else branch
IT_YoutubeInsert ==
    /\ At(IT, "youtube_insert")
    /\ \/ /\ calls' = Append(calls, Call("youtube_insert", "youtube_videos", "insert",
                                         IT_youtube_data, FALSE))
          /\ db' = Stored(db, "youtube_videos", IT_youtube_data)
          /\ Goto("chunk_text", <<Msg("Created YouTube video record", 0)>>)
       \/ /\ calls' = Append(calls, Call("youtube_insert", "youtube_videos", "insert",
                                         IT_youtube_data, TRUE))
          /\ db' = db
          /\ Goto("chunk_text", <<Msg("Warning: Issue with YouTube video record", 0)>>)
    /\ UNCHANGED <<created, client>>
    /\ UNCHANGED <<ctVars, envVars, impVars, ytVars, srvVars>>

\* line 146, the call: chunk_text(transcript_text) runs with its default
\* chunk_size and overlap (500 and 100 in the source; here any admissible
\* pair of the bounded model).  A None transcript has no split().
IT_CallChunkText ==
    /\ At(IT, "chunk_text")
    /\ IF transcript_text = NoneText
       THEN /\ Uncaught(Exc("AttributeError", ""))
            /\ UNCHANGED ctVars
       ELSE /\ Goto("in_chunk_text", <<>>)
            /\ text' = transcript_text
            /\ \E p \in Params : chunk_size' = p[1] /\ overlap' = p[2]
            /\ words' = <<>>
            /\ i' = 0
            /\ chunks' = <<>>
            /\ ct_pc' = "split"
            /\ ct_result' = <<>>
    /\ UNCHANGED <<envVars, remoteVars, impVars, ytVars, srvVars>>

\* lines 146-147, the return
IT_ChunkTextReturn ==
    /\ At(IT, "in_chunk_text")
    /\ ct_pc = "returned"
    /\ text_chunks' = ct_result
    /\ total_chunks' = Len(ct_result)
    /\ idx' = 0
    /\ ct_pc' = "idle"
    /\ Goto("chunks", <<>>)
    /\ UNCHANGED <<text, chunk_size, overlap, words, i, chunks, ct_result>>
    /\ UNCHANGED <<transcript_text, video_id, source_id, document_id>>
    /\ UNCHANGED <<envVars, remoteVars, ytVars, srvVars>>

\* Faulty variant: the chunk is linked to the source id instead of the document id.
IT_chunk_data_linked_to_source(k) ==
    [document_id |-> source_id,
     content |-> text_chunks[k + 1],
     chunk_number |-> k + 1,
     total_chunks |-> total_chunks,
     context_prefix |-> IF k > 0 THEN text_chunks[k] ELSE <<>>,
     context_suffix |-> IF k < total_chunks - 1 THEN text_chunks[k + 2] ELSE <<>>]

\* Faulty variant: chunk_number is the 0-based loop index.
IT_chunk_data_zero_based(k) ==
    [document_id |-> document_id,
     content |-> text_chunks[k + 1],
     chunk_number |-> k,
     total_chunks |-> total_chunks,
     context_prefix |-> IF k > 0 THEN text_chunks[k] ELSE <<>>,
     context_suffix |-> IF k < total_chunks - 1 THEN text_chunks[k + 2] ELSE <<>>]

\* Faulty variant: the suffix is taken at the chunk's own index.
IT_chunk_data_own_suffix(k) ==
    [document_id |-> document_id,
     content |-> text_chunks[k + 1],
     chunk_number |-> k + 1,
     total_chunks |-> total_chunks,
     context_prefix |-> IF k > 0 THEN text_chunks[k] ELSE <<>>,
     context_suffix |-> IF k < total_chunks - 1 THEN text_chunks[k + 1] ELSE <<>>]

\* Faulty variant: total_chunks counts the chunks built so far.
IT_chunk_data_running_total(k) ==
    [document_id |-> document_id,
     content |-> text_chunks[k + 1],
     chunk_number |-> k + 1,
     total_chunks |-> k + 1,
     context_prefix |-> IF k > 0 THEN text_chunks[k] ELSE <<>>,
     context_suffix |-> IF k < total_chunks - 1 THEN text_chunks[k + 2] ELSE <<>>]

\* lines 150-168: the record of the chunk at loop index k (0-based)
IT_chunk_data(k) ==
    [document_id |-> document_id,
     content |-> text_chunks[k + 1],
     chunk_number |-> k + 1,
     total_chunks |-> total_chunks,
     context_prefix |-> IF k > 0 THEN text_chunks[k] ELSE <<>>,
     context_suffix |-> IF k < total_chunks - 1 THEN text_chunks[k + 2] ELSE <<>>]

\* Faulty variant: a failed insert is tried again.
NextChunkIndex_retry(k, raised) == IF raised THEN k ELSE k + 1

\* Faulty variant: a failed insert also skips the chunk after it.
NextChunkIndex_skip(k, raised) == IF raised THEN k + 2 ELSE k + 1

\* Where the chunk loop goes after the insert of index k: Python's for takes
\* the next element, whether the body ended normally or by `continue`.
NextChunkIndex(k, raised) == k + 1

\* lines 149-175, one iteration
IT_InsertChunk ==
    /\ At(IT, "chunks")
    /\ idx < Len(text_chunks)
    /\ \/ /\ calls' = Append(calls, Call("chunk", "knowledge_chunks", "insert",
                                         IT_chunk_data(idx), FALSE))
          /\ db' = Stored(db, "knowledge_chunks", IT_chunk_data(idx))
          /\ idx' = NextChunkIndex(idx, FALSE)
          /\ Goto("chunks", <<Msg("Created chunk", idx + 1)>>)
       \/ /\ calls' = Append(calls, Call("chunk", "knowledge_chunks", "insert",
                                         IT_chunk_data(idx), TRUE))
          /\ db' = db
          /\ idx' = NextChunkIndex(idx, TRUE)
          /\ Goto("chunks", <<Msg("Error creating chunk", idx + 1)>>)
    /\ UNCHANGED <<created, client>>
    /\ UNCHANGED <<transcript_text, video_id, source_id, document_id, text_chunks, total_chunks>>
    /\ UNCHANGED <<ctVars, envVars, ytVars, srvVars>>

\* Faulty variant: the summary counts the chunk rows that were stored.
IT_Finish_counts_stored ==
    /\ At(IT, "chunks")
    /\ ~(idx < Len(text_chunks))
    /\ out' = out \o <<Msg("Successfully imported transcript", 0),
                       Msg("Created chunks",
                           Cardinality({r \in db.knowledge_chunks : r.document_id = document_id}))>>
    /\ status' = "exit0"
    /\ pc' = "exited"
    /\ exc' = exc
    /\ UNCHANGED <<ctVars, envVars, remoteVars, impVars, ytVars, srvVars>>

\* lines 177-180
IT_Finish ==
    /\ At(IT, "chunks")
    /\ ~(idx < Len(text_chunks))
    /\ out' = out \o <<Msg("Successfully imported transcript", 0),
                       Msg("Created chunks", total_chunks)>>
    /\ status' = "exit0"
    /\ pc' = "exited"
    /\ exc' = exc
    /\ UNCHANGED <<ctVars, envVars, remoteVars, impVars, ytVars, srvVars>>

import_transcript ==
    \/ IT_Env
    \/ IT_ReadFile
    \/ IT_Connect
    \/ IT_InsertSource
    \/ IT_InsertDocument
    \/ IT_YoutubeCheck
    \/ IT_YoutubeInsert
    \/ IT_CallChunkText
    \/ IT_ChunkTextReturn
    \/ IT_InsertChunk
    \/ IT_Finish

\* ---------------------------------------------------------- import_youtube_data
YD == "import_youtube_data"

\* Most files glob finds, and most entries of a file's "chunks" list.
MaxFiles == 2
MaxYtChunks == 2

\* An entry of a file's "chunks" list is modelled by its "text": the entry at
\* position k of a list holds the text PosText(k), or it is NoneText when the
\* entry has no "text" key.
PosText(k) == IF k = 1 THEN <<"a">> ELSE IF k = 2 THEN <<"b">>
              ELSE IF k = 3 THEN <<"a", "b">> ELSE <<"b", "a">>

\* The chunks lists of n entries: every entry has its text, or the first has none.
ChunkLists(n) ==
    {[k \in 1..n |-> PosText(k)],
     [k \in 1..n |-> IF k = 1 THEN NoneText ELSE PosText(k)]}

\* chunk.get("text", "")
GetText(e) == IF e = NoneText THEN <<>> ELSE e

\* What open() and json.load() can give for a transcript file: the file may be
\* unreadable; otherwise it gives video_info (empty or not) and the chunks list.
FileContents ==
    {[readable |-> FALSE, has_info |-> FALSE, chunks |-> <<>>]} \cup
    {[readable |-> TRUE, has_info |-> h, chunks |-> c] :
        h \in BOOLEAN, c \in UNION {ChunkLists(n) : n \in 0..MaxYtChunks}}

\* glob returns distinct paths; the k-th is named after the k-th video id.
FileName(k) == IF k = 1 THEN "v1" ELSE IF k = 2 THEN "v2" ELSE "v3"

FileLists == {[k \in 1..n |-> FileName(k)] : n \in 0..MaxFiles}

\* "".join([chunk.get("text", "") for chunk in chunks])
RECURSIVE ConcatTexts(_)
ConcatTexts(cs) == IF cs = <<>> THEN <<>> ELSE GetText(Head(cs)) \o ConcatTexts(Tail(cs))

\* lines 26-32
YD_Env ==
    /\ At(YD, "start")
    /\ IF MissingCredentials
       THEN Exit1(<<Msg("Error: Missing Supabase credentials in environment variables.", 0)>>)
       ELSE Goto("connect", <<>>)
    /\ UNCHANGED <<ctVars, envVars, remoteVars, impVars, ytVars, srvVars>>

\* lines 34-40
YD_Connect ==
    /\ At(YD, "connect")
    /\ created' = Append(created, <<env_url, env_key>>)
    /\ \/ /\ client' = "client"
          /\ Goto("glob", <<>>)
       \/ /\ client' = client
          /\ Exit1(<<Msg("Error connecting to Supabase", 0)>>)
    /\ UNCHANGED <<calls, db>>
    /\ UNCHANGED <<ctVars, envVars, impVars, ytVars, srvVars>>

\* lines 42-48
YD_Glob ==
    /\ At(YD, "glob")
    /\ \E fs \in FileLists :
          /\ transcript_files' = fs
          /\ IF fs = <<>>
             THEN Exit1(<<Msg("No transcript files found", 0)>>)
             ELSE Goto("file", <<Msg("Found transcript files", Len(fs))>>)
    /\ file_idx' = 0
    /\ yt_chunks' = yt_chunks
    /\ UNCHANGED <<ctVars, envVars, remoteVars, impVars, srvVars>>

\* lines 51-68: the loop takes the next file, reads and validates it
YD_NextFile ==
    /\ At(YD, "file")
    /\ file_idx < Len(transcript_files)
    /\ video_id' = transcript_files[file_idx + 1]
    /\ \E f \in FileContents :
          IF ~f.readable
          THEN /\ Goto("file", <<Msg("Error reading transcript file", file_idx + 1)>>)
               /\ file_idx' = file_idx + 1
               /\ yt_chunks' = yt_chunks
          ELSE IF ~f.has_info \/ f.chunks = <<>>
          THEN /\ Goto("file", <<Msg("Invalid transcript data", file_idx + 1)>>)
               /\ file_idx' = file_idx + 1
               /\ yt_chunks' = yt_chunks
          ELSE /\ Goto("source", <<>>)
               /\ file_idx' = file_idx
               /\ yt_chunks' = f.chunks
    /\ UNCHANGED transcript_files
    /\ UNCHANGED <<transcript_text, source_id, document_id, text_chunks, total_chunks, idx>>
    /\ UNCHANGED <<ctVars, envVars, remoteVars, srvVars>>

\* lines 71-83
YD_source_data == [source_type |-> "youtube", video_id |-> video_id]

\* Faulty variant: a failed source insert ends the process instead of the file.
YD_InsertSource_exits ==
    /\ At(YD, "source")
    /\ \/ /\ calls' = Append(calls, Call("source", "knowledge_sources", "insert",
                                         YD_source_data, FALSE))
          /\ db' = Stored(db, "knowledge_sources", YD_source_data)
          /\ source_id' = db.next_id
          /\ file_idx' = file_idx
          /\ Goto("document", <<>>)
       \/ /\ calls' = Append(calls, Call("source", "knowledge_sources", "insert",
                                         YD_source_data, TRUE))
          /\ db' = db
          /\ source_id' = source_id
          /\ file_idx' = file_idx + 1
          /\ Exit1(<<Msg("Error creating source record", file_idx + 1)>>)
    /\ UNCHANGED <<created, client, transcript_files, yt_chunks>>
    /\ UNCHANGED <<transcript_text, video_id, document_id, text_chunks, total_chunks, idx>>
    /\ UNCHANGED <<ctVars, envVars, srvVars>>

\* lines 70-91
YD_InsertSource ==
    /\ At(YD, "source")
    /\ \/ /\ calls' = Append(calls, Call("source", "knowledge_sources", "insert",
                                         YD_source_data, FALSE))
          /\ db' = Stored(db, "knowledge_sources", YD_source_data)
          /\ source_id' = db.next_id
          /\ file_idx' = file_idx
          /\ Goto("document", <<>>)
       \/ /\ calls' = Append(calls, Call("source", "knowledge_sources", "insert",
                                         YD_source_data, TRUE))
          /\ db' = db
          /\ source_id' = source_id
          /\ file_idx' = file_idx + 1
          /\ Goto("file", <<Msg("Error creating source record", file_idx + 1)>>)
    /\ UNCHANGED <<created, client, transcript_files, yt_chunks>>
    /\ UNCHANGED <<transcript_text, video_id, document_id, text_chunks, total_chunks, idx>>
    /\ UNCHANGED <<ctVars, envVars, srvVars>>

\* lines 94-104
YD_document_data ==
    [source_id |-> source_id, document_type |-> "transcript",
     content |-> ConcatTexts(yt_chunks), video_id |-> video_id]

\* lines 93-116: the document insert, then total_chunks = len(chunks)
YD_InsertDocument ==
    /\ At(YD, "document")
    /\ \/ /\ calls' = Append(calls, Call("document", "knowledge_documents", "insert",
                                         YD_document_data, FALSE))
          /\ db' = Stored(db, "knowledge_documents", YD_document_data)
          /\ document_id' = db.next_id
          /\ total_chunks' = Len(yt_chunks)
          /\ idx' = 0
          /\ file_idx' = file_idx
          /\ Goto("chunks", <<>>)
       \/ /\ calls' = Append(calls, Call("document", "knowledge_documents", "insert",
                                         YD_document_data, TRUE))
          /\ db' = db
          /\ document_id' = document_id
          /\ total_chunks' = total_chunks
          /\ idx' = idx
          /\ file_idx' = file_idx + 1
          /\ Goto("file", <<Msg("Error creating document record", file_idx + 1)>>)
    /\ UNCHANGED <<created, client, transcript_files, yt_chunks>>
    /\ UNCHANGED <<transcript_text, video_id, source_id, text_chunks>>
    /\ UNCHANGED <<ctVars, envVars, srvVars>>

\* lines 119-142: the record of the chunk at loop index k (0-based)
YD_chunk_data(k) ==
    [document_id |-> document_id,
     content |-> GetText(yt_chunks[k + 1]),
     chunk_number |-> k + 1,
     total_chunks |-> total_chunks,
     context_prefix |-> IF k > 0 THEN GetText(yt_chunks[k]) ELSE <<>>,
     context_suffix |-> IF k < total_chunks - 1 THEN GetText(yt_chunks[k + 2]) ELSE <<>>]

\* lines 118-150, one iteration
YD_InsertChunk ==
    /\ At(YD, "chunks")
    /\ idx < Len(yt_chunks)
    /\ \/ /\ calls' = Append(calls, Call("chunk", "knowledge_chunks", "insert",
                                         YD_chunk_data(idx), FALSE))
          /\ db' = Stored(db, "knowledge_chunks", YD_chunk_data(idx))
          /\ idx' = NextChunkIndex(idx, FALSE)
          /\ Goto("chunks", <<>>)
       \/ /\ calls' = Append(calls, Call("chunk", "knowledge_chunks", "insert",
                                         YD_chunk_data(idx), TRUE))
          /\ db' = db
          /\ idx' = NextChunkIndex(idx, TRUE)
          /\ Goto("chunks", <<Msg("Error creating chunk record", idx + 1)>>)
    /\ UNCHANGED <<created, client>>
    /\ UNCHANGED <<transcript_text, video_id, source_id, document_id, text_chunks, total_chunks>>
    /\ UNCHANGED <<ctVars, envVars, ytVars, srvVars>>

\* lines 153-166
YD_youtube_data ==
    [source_id |-> source_id, youtube_id |-> video_id,
     transcript |-> ConcatTexts(yt_chunks)]

\* lines 152-175: after the chunk loop, the youtube_videos insert
YD_InsertYoutube ==
    /\ At(YD, "chunks")
    /\ ~(idx < Len(yt_chunks))
    /\ \/ /\ calls' = Append(calls, Call("youtube_insert", "youtube_videos", "insert",
                                         YD_youtube_data, FALSE))
          /\ db' = Stored(db, "youtube_videos", YD_youtube_data)
          /\ Goto("file", <<Msg("Finished processing video", file_idx + 1)>>)
       \/ /\ calls' = Append(calls, Call("youtube_insert", "youtube_videos", "insert",
                                         YD_youtube_data, TRUE))
          /\ db' = db
          /\ Goto("file", <<Msg("Error creating YouTube record", file_idx + 1)>>)
    /\ file_idx' = file_idx + 1
    /\ UNCHANGED <<created, client, transcript_files, yt_chunks>>
    /\ UNCHANGED impVars
    /\ UNCHANGED <<ctVars, envVars, srvVars>>

\* line 177
YD_Done ==
    /\ At(YD, "file")
    /\ ~(file_idx < Len(transcript_files))
    /\ out' = Append(out, Msg("YouTube data import complete!", 0))
    /\ status' = "exit0"
    /\ pc' = "exited"
    /\ exc' = exc
    /\ UNCHANGED <<ctVars, envVars, remoteVars, impVars, ytVars, srvVars>>

import_youtube_data ==
    \/ YD_Env
    \/ YD_Connect
    \/ YD_Glob
    \/ YD_NextFile
    \/ YD_InsertSource
    \/ YD_InsertDocument
    \/ YD_InsertChunk
    \/ YD_InsertYoutube
    \/ YD_Done

\* ---------------------------------------------- query_knowledge.py: both commands
QK == "query_knowledge"
LD == "list_all_documents"

\* Most rows a select of the query scripts finds.
MaxFound == 2

\* query_knowledge lines 23-29, list_all_documents lines 77-83
QK_Env ==
    /\ \/ At(QK, "start")
       \/ At(LD, "start")
    /\ IF MissingCredentials
       THEN Exit1(<<Msg("Error: Missing Supabase credentials in environment variables.", 0)>>)
       ELSE Goto("connect", <<>>)
    /\ UNCHANGED <<ctVars, envVars, remoteVars, impVars, ytVars, srvVars>>

\* query_knowledge lines 31-37, list_all_documents lines 85-91
QK_Connect ==
    /\ \/ At(QK, "connect")
       \/ At(LD, "connect")
    /\ created' = Append(created, <<env_url, env_key>>)
    /\ \/ /\ client' = "client"
          /\ Goto("query", <<>>)
       \/ /\ client' = client
          /\ Exit1(<<Msg("Error connecting to Supabase", 0)>>)
    /\ UNCHANGED <<calls, db>>
    /\ UNCHANGED <<ctVars, envVars, impVars, ytVars, srvVars>>

\* query_knowledge lines 39-70: the ilike search and the display of what it found
QK_Search ==
    /\ At(QK, "query")
    /\ \/ /\ calls' = Append(calls, Call("search", "knowledge_chunks", "select",
                                         [ilike |-> "content"], FALSE))
          /\ \E found \in 0..MaxFound :
                /\ out' = out \o <<Msg("Found related chunks", found)>>
                               \o (IF found = 0 THEN <<Msg("No results found.", 0)>> ELSE <<>>)
                /\ status' = "exit0"
                /\ pc' = "exited"
                /\ exc' = exc
       \/ /\ calls' = Append(calls, Call("search", "knowledge_chunks", "select",
                                         [ilike |-> "content"], TRUE))
          /\ Exit1(<<Msg("Error querying database", 0)>>)
    /\ UNCHANGED <<created, client, db>>
    /\ UNCHANGED <<ctVars, envVars, impVars, ytVars, srvVars>>

\* list_all_documents lines 93-121
LD_List ==
    /\ At(LD, "query")
    /\ \/ /\ calls' = Append(calls, Call("list", "knowledge_documents", "select",
                                         [ilike |-> ""], FALSE))
          /\ \E found \in 0..MaxFound :
                /\ out' = out \o <<Msg("Found documents", found)>>
                               \o (IF found = 0 THEN <<Msg("No documents found.", 0)>> ELSE <<>>)
                /\ status' = "exit0"
                /\ pc' = "exited"
                /\ exc' = exc
       \/ /\ calls' = Append(calls, Call("list", "knowledge_documents", "select",
                                         [ilike |-> ""], TRUE))
          /\ Exit1(<<Msg("Error listing documents", 0)>>)
    /\ UNCHANGED <<created, client, db>>
    /\ UNCHANGED <<ctVars, envVars, impVars, ytVars, srvVars>>

query_knowledge_py ==
    \/ QK_Env
    \/ QK_Connect
    \/ QK_Search
    \/ LD_List

\* -------------------------------------------------------- verify_knowledge_db.py
VK == "verify_knowledge_database"

\* lines 39-47
expected_tables ==
    <<"knowledge_sources", "knowledge_documents", "knowledge_chunks",
      "knowledge_entities", "knowledge_relations", "knowledge_entity_chunks",
      "youtube_videos">>

\* lines 22-28
VK_Env ==
    /\ At(VK, "start")
    /\ IF MissingCredentials
       THEN Exit1(<<Msg("Error: Missing Supabase credentials in environment variables.", 0)>>)
       ELSE Goto("connect", <<>>)
    /\ UNCHANGED <<ctVars, envVars, remoteVars, impVars, ytVars, srvVars>>

\* lines 30-36
VK_Connect ==
    /\ At(VK, "connect")
    /\ created' = Append(created, <<env_url, env_key>>)
    /\ idx' = 0
    /\ \/ /\ client' = "client"
          /\ Goto("tables", <<>>)
       \/ /\ client' = client
          /\ Exit1(<<Msg("Error connecting to Supabase", 0)>>)
    /\ UNCHANGED <<calls, db>>
    /\ UNCHANGED <<transcript_text, video_id, source_id, document_id, text_chunks, total_chunks>>
    /\ UNCHANGED <<ctVars, envVars, ytVars, srvVars>>

\* lines 50-56, one iteration
VK_CheckTable ==
    /\ At(VK, "tables")
    /\ idx < Len(expected_tables)
    /\ \/ /\ calls' = Append(calls, Call("table_check", expected_tables[idx + 1], "select",
                                         [count |-> "exact", limit |-> 1], FALSE))
          /\ Goto("tables", <<Msg("Found", idx + 1)>>)
       \/ /\ calls' = Append(calls, Call("table_check", expected_tables[idx + 1], "select",
                                         [count |-> "exact", limit |-> 1], TRUE))
          /\ Goto("tables", <<Msg("Not found or error", idx + 1)>>)
    /\ idx' = idx + 1
    /\ UNCHANGED <<created, client, db>>
    /\ UNCHANGED <<transcript_text, video_id, source_id, document_id, text_chunks, total_chunks>>
    /\ UNCHANGED <<ctVars, envVars, ytVars, srvVars>>

\* lines 58-69, after the loop
VK_VectorCheck ==
    /\ At(VK, "tables")
    /\ ~(idx < Len(expected_tables))
    /\ \/ /\ calls' = Append(calls, Call("vector_check", "knowledge_chunks", "select",
                                         [count |-> "", limit |-> 1], FALSE))
          /\ Goto("views", <<Msg("Vector tables appear to be properly set up", 0)>>)
       \/ /\ calls' = Append(calls, Call("vector_check", "knowledge_chunks", "select",
                                         [count |-> "", limit |-> 1], TRUE))
          /\ Goto("views", <<Msg("Error checking vector tables", 0)>>)
    /\ UNCHANGED <<created, client, db>>
    /\ UNCHANGED <<ctVars, envVars, impVars, ytVars, srvVars>>

\* lines 71-93: the views are only named, nothing is asked of the database
VK_Finish ==
    /\ At(VK, "views")
    /\ out' = Append(out, Msg("Database verification completed!", 0))
    /\ status' = "exit0"
    /\ pc' = "exited"
    /\ exc' = exc
    /\ UNCHANGED <<ctVars, envVars, remoteVars, impVars, ytVars, srvVars>>

verify_knowledge_database ==
    \/ VK_Env
    \/ VK_Connect
    \/ VK_CheckTable
    \/ VK_VectorCheck
    \/ VK_Finish

\* ---------------------------------------------------------------- list_videos.py
LV == "list_videos"

\* lines 16-20: the variables are read and handed to create_client unchecked;
\* the script has no try, so what create_client raises ends it
LV_Connect ==
    /\ At(LV, "start")
    /\ created' = Append(created, <<env_url, env_key>>)
    /\ \/ /\ client' = "client"
          /\ Goto("query", <<>>)
       \/ /\ client' = client
          /\ Uncaught(Exc("ClientError", ""))
    /\ UNCHANGED <<calls, db>>
    /\ UNCHANGED <<ctVars, envVars, impVars, ytVars, srvVars>>

\* lines 23-31
LV_Query ==
    /\ At(LV, "query")
    /\ \/ /\ calls' = Append(calls, Call("videos", "youtube_videos", "select",
                                         [ilike |-> ""], FALSE))
          /\ out' = Append(out, Msg("Found videos", Cardinality(db.youtube_videos)))
          /\ status' = "exit0"
          /\ pc' = "exited"
          /\ exc' = exc
       \/ /\ calls' = Append(calls, Call("videos", "youtube_videos", "select",
                                         [ilike |-> ""], TRUE))
          /\ Uncaught(Exc("RemoteError", ""))
    /\ UNCHANGED <<created, client, db>>
    /\ UNCHANGED <<ctVars, envVars, impVars, ytVars, srvVars>>

list_videos ==
    \/ LV_Connect
    \/ LV_Query

\* --------------------------------------------------------- setup_knowledge_db.py
SK == "setup_knowledge_database"

\* lines 33-39
SK_Env ==
    /\ At(SK, "start")
    /\ IF MissingCredentials
       THEN Exit1(<<Msg("Error: Missing Supabase credentials in environment variables.", 0)>>)
       ELSE Goto("schema", <<>>)
    /\ UNCHANGED <<ctVars, envVars, remoteVars, impVars, ytVars, srvVars>>

\* lines 19-26 and 41-49: read_sql_schema
SK_ReadSchema ==
    /\ At(SK, "schema")
    /\ \/ Goto("instructions", <<>>)
       \/ Exit1(<<Msg("Error reading SQL schema file", 0)>>)
    /\ UNCHANGED <<ctVars, envVars, remoteVars, impVars, ytVars, srvVars>>

\* lines 72-107: the instructions are printed and the schema saved; nothing is
\* sent to the database
SK_Instructions ==
    /\ At(SK, "instructions")
    /\ \/ /\ out' = Append(out, Msg("KNOWLEDGE database setup completed.", 0))
          /\ status' = "exit0"
          /\ pc' = "exited"
          /\ exc' = exc
       \/ Exit1(<<Msg("Error in setup", 0)>>)
    /\ UNCHANGED <<ctVars, envVars, remoteVars, impVars, ytVars, srvVars>>

setup_knowledge_database ==
    \/ SK_Env
    \/ SK_ReadSchema
    \/ SK_Instructions

\* ------------------------------------------------------- supabase_mcp/server.py
MCP == "mcp_server"

\* Most tool invocations the host makes inside one lifespan scope.
MaxRequests == 2

\* An optional value: Nothing is Python's None, Some(v) a given value.
Nothing == <<>>
Some(v) == <<v>>

MissingEnvMessage ==
    "Missing environment variables. Please set SUPABASE_URL and SUPABASE_SERVICE_KEY."

\* lines 47-53
SL_CheckEnv ==
    /\ At(MCP, "start")
    /\ IF MissingCredentials
       THEN Uncaught(Exc("ValueError", MissingEnvMessage))
       ELSE Goto("create_client", <<>>)
    /\ UNCHANGED <<ctVars, envVars, remoteVars, impVars, ytVars, srvVars>>

\* Faulty variant: the two credentials are passed in the wrong order.
SL_CreateClient_swapped ==
    /\ At(MCP, "create_client")
    /\ created' = Append(created, <<env_key, env_url>>)
    /\ \/ /\ client' = "client"
          /\ Goto("yield", <<>>)
       \/ /\ client' = client
          /\ Uncaught(Exc("ClientError", ""))
    /\ UNCHANGED <<calls, db>>
    /\ UNCHANGED <<ctVars, envVars, impVars, ytVars, srvVars>>

\* line 56: what create_client raises leaves the lifespan
SL_CreateClient ==
    /\ At(MCP, "create_client")
    /\ created' = Append(created, <<env_url, env_key>>)
    /\ \/ /\ client' = "client"
          /\ Goto("yield", <<>>)
       \/ /\ client' = client
          /\ Uncaught(Exc("ClientError", ""))
    /\ UNCHANGED <<calls, db>>
    /\ UNCHANGED <<ctVars, envVars, impVars, ytVars, srvVars>>

\* lines 58-59: yield SupabaseContext(client=supabase_client)
SL_Yield ==
    /\ At(MCP, "yield")
    /\ ctx' = [client |-> client]
    /\ Goto("serving", <<>>)
    /\ UNCHANGED <<req, served>>
    /\ UNCHANGED <<ctVars, envVars, remoteVars, impVars, ytVars>>

\* lines 60-62: the host leaves the scope; the finally clause does nothing
SL_Exit ==
    /\ At(MCP, "serving")
    /\ ctx' = [client |-> None]
    /\ out' = out
    /\ status' = "exit0"
    /\ pc' = "exited"
    /\ exc' = exc
    /\ UNCHANGED <<req, served>>
    /\ UNCHANGED <<ctVars, envVars, remoteVars, impVars, ytVars>>

\* What the host can pass to the tools.
TableNames == {"users"}
ColumnArgs == {"*", "id,name"}
FilterArgs == {Nothing, Some(<<>>), Some(<< <<"is_active", "true">> >>),
               Some(<< <<"is_active", "true">>, <<"role", "admin">> >>)}
LimitArgs == {Nothing, Some(0), Some(1), Some(2)}
OrderArgs == {None, "", "created_at"}
RecordArgs == {<<"row1">>, <<"row1", "row2">>}
UpdateArgs == {"status=premium"}

\* What response.data can be: None, or a list of rows.
ResponseData == {Nothing, Some(<<>>), Some(<<"r1">>), Some(<<"r1", "r2">>)}

\* One call on the client or on the query builder.
Step(m, col, val, n, asc) == [m |-> m, col |-> col, val |-> val, n |-> n, asc |-> asc]
TableStep(name) == Step("table", name, "", 0, TRUE)
ExecuteStep == Step("execute", "", "", 0, TRUE)

\* Faulty variant: only the first item of the dict is applied.
EqSteps_first_only(items) ==
    [k \in 1..Min(1, Len(items)) |-> Step("eq", items[k][1], items[k][2], 0, TRUE)]

\* query = query.eq(column, value) for every item of a dict, in its order
EqSteps(items) == [k \in 1..Len(items) |-> Step("eq", items[k][1], items[k][2], 0, TRUE)]

\* The truth value of an optional dict, of an optional int.
TruthyFilters(f) == f # Nothing /\ f[1] # <<>>
TruthyLimit(l) == l # Nothing /\ l[1] # 0

\* Faulty variant: ordering is always requested ascending.
ReadSteps_always_ascending(table_name, columns, filters, limit, order_by, ascending) ==
    <<TableStep(table_name), Step("select", columns, "", 0, TRUE)>>
    \o (IF TruthyFilters(filters) THEN EqSteps(filters[1]) ELSE <<>>)
    \o (IF ~Falsy(order_by) THEN <<Step("order", order_by, "", 0, TRUE)>> ELSE <<>>)
    \o (IF TruthyLimit(limit) THEN <<Step("limit", "", "", limit[1], TRUE)>> ELSE <<>>)

\* Faulty variant: the filters are kept in a module-level variable, so a read
\* without filters applies those of the read before it.
ReadSteps_sticky_filters(table_name, columns, filters, limit, order_by, ascending) ==
    LET kept == IF ~TruthyFilters(filters) /\ req.tool = "read_table_rows"
                THEN req.args.filters ELSE filters
    IN <<TableStep(table_name), Step("select", columns, "", 0, TRUE)>>
       \o (IF TruthyFilters(kept) THEN EqSteps(kept[1]) ELSE <<>>)
       \o (IF ~Falsy(order_by) THEN <<Step("order", order_by, "", 0, ascending)>> ELSE <<>>)
       \o (IF TruthyLimit(limit) THEN <<Step("limit", "", "", limit[1], TRUE)>> ELSE <<>>)

\* lines 112-126: the builder calls of read_table_rows, in order
ReadSteps(table_name, columns, filters, limit, order_by, ascending) ==
    <<TableStep(table_name), Step("select", columns, "", 0, TRUE)>>
    \o (IF TruthyFilters(filters) THEN EqSteps(filters[1]) ELSE <<>>)
    \o (IF ~Falsy(order_by) THEN <<Step("order", order_by, "", 0, ascending)>> ELSE <<>>)
    \o (IF TruthyLimit(limit) THEN <<Step("limit", "", "", limit[1], TRUE)>> ELSE <<>>)

\* A tool invocation that the handler ran to its return statement: the client
\* it took from the lifespan context, the calls it made on it, the data of the
\* response execute() gave, and what the handler returned.
Returned_(tool, args, steps, response, result) ==
    [tool |-> tool, args |-> args, client |-> ctx.client, steps |-> steps,
     raised |-> FALSE, exc |-> None, response |-> response, result |-> result]

\* A tool invocation that an exception left.
Raised_(tool, args, steps, e) ==
    [tool |-> tool, args |-> args, client |-> ctx.client, steps |-> steps,
     raised |-> TRUE, exc |-> e, response |-> Nothing, result |-> [data |-> Nothing]]

\* The host calls a tool: only inside the lifespan scope.
Serving == At(MCP, "serving") /\ ctx.client # None /\ served < MaxRequests

\* Faulty variant: `return response.data or []`.
ReadResult_or_empty(d) == [data |-> IF d = Nothing THEN Some(<<>>) ELSE d]

\* line 132: return response.data
ReadResult(d) == [data |-> d]

\* lines 109-132
read_table_rows ==
    /\ Serving
    /\ \E t \in TableNames, c \in ColumnArgs, f \in FilterArgs, l \in LimitArgs,
          o \in OrderArgs, a \in BOOLEAN :
          LET args == [table_name |-> t, columns |-> c, filters |-> f, limit |-> l,
                       order_by |-> o, ascending |-> a]
              steps == ReadSteps(t, c, f, l, o, a) \o <<ExecuteStep>>
          IN \/ \E d \in ResponseData :
                   req' = Returned_("read_table_rows", args, steps, d, ReadResult(d))
             \/ req' = Raised_("read_table_rows", args, steps, "RemoteError")
    /\ served' = served + 1
    /\ UNCHANGED ctx
    /\ UNCHANGED <<ctVars, envVars, runVars, remoteVars, impVars, ytVars>>

\* Faulty variant: the tests are `is not None` instead of truthiness.
WriteResult_unless_none(d) ==
    [data |-> d,
     count |-> IF d # Nothing THEN Len(d[1]) ELSE 0,
     status |-> IF d # Nothing THEN "success" ELSE "error"]

\* The dict the three writing tools return (lines 177-181, 227-231, 274-278).
\* len(None) is never evaluated: the conditional expression guards it.
WriteResult(d) ==
    [data |-> d,
     count |-> IF d # Nothing /\ d[1] # <<>> THEN Len(d[1]) ELSE 0,
     status |-> IF d # Nothing /\ d[1] # <<>> THEN "success" ELSE "error"]

\* Faulty variant: the records are inserted one by one, each with its own execute.
create_table_records_one_by_one ==
    /\ Serving
    /\ \E t \in TableNames, r \in RecordArgs :
          LET args == [table_name |-> t, records |-> r]
              One(k) == <<TableStep(t), Step("insert", "", <<r[k]>>, 0, TRUE), ExecuteStep>>
              steps == IF Len(r) = 1 THEN One(1) ELSE One(1) \o One(2)
          IN \/ \E d \in ResponseData :
                   req' = Returned_("create_table_records", args, steps, d, WriteResult(d))
             \/ req' = Raised_("create_table_records", args, steps, "RemoteError")
    /\ served' = served + 1
    /\ UNCHANGED ctx
    /\ UNCHANGED <<ctVars, envVars, runVars, remoteVars, impVars, ytVars>>

\* lines 171-181
create_table_records ==
    /\ Serving
    /\ \E t \in TableNames, r \in RecordArgs :
          LET args == [table_name |-> t, records |-> r]
              steps == <<TableStep(t), Step("insert", "", r, 0, TRUE), ExecuteStep>>
          IN \/ \E d \in ResponseData :
                   req' = Returned_("create_table_records", args, steps, d, WriteResult(d))
             \/ req' = Raised_("create_table_records", args, steps, "RemoteError")
    /\ served' = served + 1
    /\ UNCHANGED ctx
    /\ UNCHANGED <<ctVars, envVars, runVars, remoteVars, impVars, ytVars>>

\* lines 214-231: filters.items() of a None filters is an AttributeError
update_table_records ==
    /\ Serving
    /\ \E t \in TableNames, u \in UpdateArgs, f \in FilterArgs :
          LET args == [table_name |-> t, updates |-> u, filters |-> f]
              built == <<TableStep(t), Step("update", "", u, 0, TRUE)>>
          IN IF f = Nothing
             THEN req' = Raised_("update_table_records", args, built, "AttributeError")
             ELSE \/ \E d \in ResponseData :
                        req' = Returned_("update_table_records", args,
                                         built \o EqSteps(f[1]) \o <<ExecuteStep>>,
                                         d, WriteResult(d))
                  \/ req' = Raised_("update_table_records", args,
                                    built \o EqSteps(f[1]) \o <<ExecuteStep>>, "RemoteError")
    /\ served' = served + 1
    /\ UNCHANGED ctx
    /\ UNCHANGED <<ctVars, envVars, runVars, remoteVars, impVars, ytVars>>

\* lines 261-278
delete_table_records ==
    /\ Serving
    /\ \E t \in TableNames, f \in FilterArgs :
          LET args == [table_name |-> t, filters |-> f]
              built == <<TableStep(t), Step("delete", "", "", 0, TRUE)>>
          IN IF f = Nothing
             THEN req' = Raised_("delete_table_records", args, built, "AttributeError")
             ELSE \/ \E d \in ResponseData :
                        req' = Returned_("delete_table_records", args,
                                         built \o EqSteps(f[1]) \o <<ExecuteStep>>,
                                         d, WriteResult(d))
                  \/ req' = Raised_("delete_table_records", args,
                                    built \o EqSteps(f[1]) \o <<ExecuteStep>>, "RemoteError")
    /\ served' = served + 1
    /\ UNCHANGED ctx
    /\ UNCHANGED <<ctVars, envVars, runVars, remoteVars, impVars, ytVars>>

mcp_server ==
    \/ SL_CheckEnv
    \/ SL_CreateClient
    \/ SL_Yield
    \/ SL_Exit
    \/ read_table_rows
    \/ create_table_records
    \/ update_table_records
    \/ delete_table_records

\* ----------------------------------------------------------------- the system
Scripts == {IT, YD, QK, LD, VK, LV, SK}
Programs == Scripts \cup {MCP}

Init ==
    /\ prog \in Programs
    /\ env_url \in UrlValues
    /\ env_key \in KeyValues
    /\ pc = "start"
    /\ status = "running"
    /\ exc = NoExc
    /\ out = <<>>
    /\ created = <<>>
    /\ client = None
    /\ calls = <<>>
    /\ db \in InitialDbs
    /\ transcript_text = <<>>
    /\ video_id = None
    /\ source_id = 0
    /\ document_id = 0
    /\ text_chunks = <<>>
    /\ total_chunks = 0
    /\ idx = 0
    /\ transcript_files = <<>>
    /\ file_idx = 0
    /\ yt_chunks = <<>>
    /\ ctx = [client |-> None]
    /\ req = NoReq
    /\ served = 0
    /\ text = <<>>
    /\ chunk_size = 1
    /\ overlap = 0
    /\ words = <<>>
    /\ i = 0
    /\ chunks = <<>>
    /\ ct_pc = "idle"
    /\ ct_result = <<>>

Next ==
    \/ import_transcript
    \/ import_youtube_data
    \/ query_knowledge_py
    \/ verify_knowledge_database
    \/ list_videos
    \/ setup_knowledge_database
    \/ mcp_server
    \/ ChunkNext

Spec == Init /\ [][Next]_vars

\* The two importers alone, as sequential programs: a running process takes
\* its next step.
ImportersInit == Init /\ prog \in {IT, YD}

ImportersNext ==
    \/ import_transcript
    \/ import_youtube_data
    \/ ChunkNext

FairImporters == ImportersInit /\ [][ImportersNext]_vars /\ WF_vars(ImportersNext)

\* ------------------------------------------------------------ chunk_text claims
\* What the claims call n and the stride.
WordCount == Len(split(text))
Stride == chunk_size - overlap
Returned == ct_pc = "returned"
Ceil(a, b) == (a + b - 1) \div b

\* The last m and the first m elements of a sequence, as s[-m:] and s[:m] give
\* them for m >= 1 (the whole sequence when it is shorter than m).
LastN(s, m) == IF m = 0 THEN <<>> ELSE SubSeq(s, IF Len(s) > m THEN Len(s) - m + 1 ELSE 1, Len(s))
FirstN(s, m) == SubSeq(s, 1, Min(m, Len(s)))

\* C2: for a text of n > chunk_size words, the k-th chunk (k = 0, 1, ...) built
\* by chunk_text is exactly the words at positions k*(chunk_size-overlap) up to
\* (excluding) min(n, k*(chunk_size-overlap)+chunk_size) of text.split(),
\* joined by single spaces, so that no chunk holds more than chunk_size words.
C2_SlidingWindow ==
    (ct_pc \in {"loop", "returned"} /\ WordCount > chunk_size) =>
        \A k \in 0..(Len(chunks) - 1) :
            /\ chunks[k + 1] =
                 join(SubSeq(split(text), k * Stride + 1,
                             Min(WordCount, k * Stride + chunk_size)))
            /\ split(chunks[k + 1]) =
                 SubSeq(split(text), k * Stride + 1,
                        Min(WordCount, k * Stride + chunk_size))
            /\ Len(split(chunks[k + 1])) <= chunk_size

\* C2 witness: chunk_text returned at least three chunks, the last one cut
\* short by the end of the text.
C2_Witness ==
    /\ Returned
    /\ WordCount > chunk_size
    /\ ct_result = chunks
    /\ Len(chunks) >= 3
    /\ overlap >= 1
    /\ Len(split(chunks[Len(chunks)])) < chunk_size

\* C3 (as stated): for every pair of consecutive chunks k and k+1 the last
\* `overlap` words of chunk k are exactly the first `overlap` words of chunk
\* k+1, for every word count n > chunk_size.
C3_ConstantOverlap ==
    (Returned /\ WordCount > chunk_size) =>
        \A k \in 1..(Len(ct_result) - 1) :
            LastN(split(ct_result[k]), overlap) = FirstN(split(ct_result[k + 1]), overlap)

\* C4: the number of chunks is determined by the word count n: one chunk, the
\* text itself unchanged, when n <= chunk_size, and ceil(n / (chunk_size -
\* overlap)) chunks when n > chunk_size.
C4_ChunkCount ==
    Returned =>
        /\ WordCount <= chunk_size => ct_result = <<text>>
        /\ WordCount > chunk_size => Len(ct_result) = Ceil(WordCount, Stride)

\* C4 witness: a text longer than one chunk whose word count is no multiple
\* of the stride has been chunked.
C4_Witness ==
    /\ Returned
    /\ WordCount > chunk_size
    /\ WordCount % Stride # 0
    /\ Len(ct_result) = Ceil(WordCount, Stride)
    /\ Len(ct_result) >= 2


\* ------------------------------------------------------------- importer claims
Importers == {IT, YD}

Last(q) == q[Len(q)]

\* The chunk inserts executed so far for document d, in order.
ChunkCallsOf(d) ==
    LET IsOf(c) == c.site = "chunk" /\ c.payload.document_id = d
    IN SelectSeq(calls, IsOf)

\* The documents some chunk insert was executed for.
ChunkedDocuments == {calls[k].payload.document_id : k \in {j \in 1..Len(calls) : calls[j].site = "chunk"}}

\* The list the chunk loop of the running importer iterates over.
LoopList == IF prog = IT THEN text_chunks ELSE yt_chunks

\* The importer is inside its chunk loop.
InChunkLoop == prog \in Importers /\ status = "running" /\ pc = "chunks"

\* C1: after any run of either importer, failed chunk inserts included, two
\* stored chunk rows of one document with chunk_number i and i+1 agree: the
\* context_suffix of row i is the content of row i+1 and the context_prefix of
\* row i+1 is the content of row i; the first chunk has an empty context_prefix
\* and the last chunk an empty context_suffix.
C1_NeighbourContext ==
    prog \in Importers =>
        /\ \A r1 \in db.knowledge_chunks, r2 \in db.knowledge_chunks :
              (r1.document_id = r2.document_id /\ r2.chunk_number = r1.chunk_number + 1) =>
                  /\ r1.context_suffix = r2.content
                  /\ r2.context_prefix = r1.content
        /\ \A r \in db.knowledge_chunks :
              /\ r.chunk_number = 1 => r.context_prefix = <<>>
              /\ r.chunk_number = r.total_chunks => r.context_suffix = <<>>

\* C1 witness: a finished run in which a chunk insert failed and which stored
\* two neighbouring chunks of different content.
C1_Witness ==
    /\ prog \in Importers
    /\ status = "exit0"
    /\ \E k \in 1..Len(calls) : calls[k].site = "chunk" /\ calls[k].raised
    /\ \E r1 \in db.knowledge_chunks, r2 \in db.knowledge_chunks :
          /\ r1.document_id = r2.document_id
          /\ r2.chunk_number = r1.chunk_number + 1
          /\ r1.content # r2.content
          /\ r1.context_suffix = r2.content

\* C5: every chunk record an importer builds for one document carries the same
\* total_chunks, the number of chunks of that document; the value is fixed
\* before the first chunk insert and does not change during the insert loop.
C5_TotalInv ==
    /\ \A a \in 1..Len(calls), b \in 1..Len(calls) :
          (calls[a].site = "chunk" /\ calls[b].site = "chunk"
             /\ calls[a].payload.document_id = calls[b].payload.document_id) =>
              calls[a].payload.total_chunks = calls[b].payload.total_chunks
    /\ InChunkLoop =>
          /\ total_chunks = Len(LoopList)
          /\ \A k \in 1..Len(ChunkCallsOf(document_id)) :
                ChunkCallsOf(document_id)[k].payload.total_chunks = Len(LoopList)

C5_TotalStep ==
    (InChunkLoop /\ pc' = "chunks") => (total_chunks' = total_chunks /\ LoopList' = LoopList)

C5_TotalChunksConstant == []C5_TotalInv /\ [][C5_TotalStep]_vars

\* C5 witness: two chunk records of one document have been built, of which
\* the second is not the last.
C5_Witness ==
    /\ InChunkLoop
    /\ total_chunks >= 3
    /\ Len(ChunkCallsOf(document_id)) = 2

\* The messages the except clauses around the remote table operations print.
RemoteErrorMsgs ==
    {"Error creating source record", "Error creating document record",
     "Warning: Issue with YouTube video record", "Error creating chunk",
     "Error creating chunk record", "Error creating YouTube record",
     "Error querying database", "Error listing documents",
     "Not found or error", "Error checking vector tables"}

\* The scripts whose remote table operations stand in a try block.
CatchingScripts == {IT, YD, QK, LD, VK}

RaisedCalls == LET R(c) == c.raised IN SelectSeq(calls, R)
PrintedRemoteErrors == LET E(m) == m.msg \in RemoteErrorMsgs IN SelectSeq(out, E)

\* C6 (as stated): in every script and every MCP tool handler an exception
\* raised by a remote database call is caught at its call site; none
\* propagates out of the function that issued the call.
C6_NoRemoteExceptionPropagates ==
    /\ ~(status = "raised" /\ exc.type = "RemoteError")
    /\ ~(req.tool # None /\ req.raised /\ req.exc = "RemoteError")

\* C6 (amended): in import_transcript, import_youtube_data, query_knowledge,
\* list_all_documents and verify_knowledge_database every exception raised by
\* a remote table operation is caught at the call site and printed, after
\* which the process exits with status 1 or goes on with its next step or
\* item; list_videos.py and the four MCP tool handlers catch nothing: there
\* the exception leaves the script, or the tool handler, with no result built.
C6_CaughtInv ==
    /\ prog \in CatchingScripts =>
          /\ ~(status = "raised" /\ exc.type = "RemoteError")
          /\ Len(RaisedCalls) = Len(PrintedRemoteErrors)
    /\ prog = LV =>
          (RaisedCalls # <<>> => status = "raised" /\ exc.type = "RemoteError")
    /\ (req.tool # None /\ req.raised) =>
          /\ req.result = [data |-> Nothing]
          /\ req.exc = "RemoteError" <=> Last(req.steps).m = "execute"

C6_CaughtStep ==
    (prog \in CatchingScripts /\ Len(calls') = Len(calls) + 1 /\ Last(calls').raised) =>
        /\ Len(out') = Len(out) + 1
        /\ Last(out').msg \in RemoteErrorMsgs
        /\ status' \in {"exit1", "running"}
        /\ exc' = NoExc

C6_CaughtWhereHandled == []C6_CaughtInv /\ [][C6_CaughtStep]_vars

\* C6 witness: import_youtube_data went on to its second file after the source
\* insert of the first one raised.
C6_Witness ==
    /\ prog = YD
    /\ Len(calls) >= 2
    /\ calls[1].site = "source" /\ calls[1].raised
    /\ calls[2].payload.video_id = "v2"
    /\ Len(PrintedRemoteErrors) >= 1

\* C7: in both importers the insert of every chunk 1..total_chunks of a
\* document is attempted exactly once and in increasing chunk_number order,
\* whether or not earlier inserts raised; a failed insert ends neither the
\* loop nor the process, and the loop terminates after the last chunk.
C7_LoopInv ==
    /\ \A d \in ChunkedDocuments :
          LET cs == ChunkCallsOf(d)
          IN /\ \A k \in 1..Len(cs) : cs[k].payload.chunk_number = k
             /\ Len(cs) <= cs[1].payload.total_chunks
             /\ ~(InChunkLoop /\ d = document_id) => Len(cs) = cs[1].payload.total_chunks
    /\ InChunkLoop => Len(ChunkCallsOf(document_id)) = idx /\ idx <= total_chunks

C7_LoopStep ==
    (InChunkLoop /\ Len(calls') = Len(calls) + 1 /\ Last(calls').site = "chunk") =>
        /\ Last(calls').payload.chunk_number = idx + 1
        /\ status' = "running"
        /\ pc' = "chunks"
        /\ idx' = idx + 1

C7_SkipAndContinue ==
    /\ []C7_LoopInv
    /\ [][C7_LoopStep]_vars
    /\ (InChunkLoop ~> ~InChunkLoop)

\* C7 witness: a chunk loop ran to its end although its first insert raised.
C7_Witness ==
    /\ prog \in Importers
    /\ ~InChunkLoop
    /\ \E d \in ChunkedDocuments :
          /\ Len(ChunkCallsOf(d)) >= 2
          /\ ChunkCallsOf(d)[1].raised
          /\ Len(ChunkCallsOf(d)) = ChunkCallsOf(d)[1].payload.total_chunks

\* C8: within one run no remote operation is issued twice for the same item:
\* no two executed operations agree in call site, table, operation and payload.
C8_NoRetry ==
    \A a \in 1..Len(calls), b \in 1..Len(calls) :
        (a < b /\ calls[a].site = calls[b].site /\ calls[a].table = calls[b].table
           /\ calls[a].op = calls[b].op) =>
            calls[a].payload # calls[b].payload

\* C8 witness: a run ended normally after an operation raised and others followed.
C8_Witness ==
    /\ status = "exit0"
    /\ Len(calls) >= 4
    /\ \E k \in 1..(Len(calls) - 1) : calls[k].raised /\ calls[k].site = calls[k + 1].site

\* An environment variable that is unset (None) or set to the empty string.
UnsetOrEmpty(v) == v = None \/ v = ""

\* C9 (as stated): when SUPABASE_URL or SUPABASE_SERVICE_KEY is missing or
\* empty, no script constructs the remote client or issues a table operation;
\* it stops with exit status 1 before client construction.
C9_CredentialsRequired ==
    (prog \in Scripts /\ (UnsetOrEmpty(env_url) \/ UnsetOrEmpty(env_key))) =>
        /\ created = <<>>
        /\ client = None
        /\ calls = <<>>
        /\ status \in {"running", "exit1"}

\* C10: supabase_lifespan raises ValueError("Missing environment variables
\* ...") whenever SUPABASE_URL or SUPABASE_SERVICE_KEY is unset or empty; then
\* create_client is never called, no context is yielded and no tool handler
\* runs.
C10_LifespanMissingEnv ==
    (prog = MCP /\ (UnsetOrEmpty(env_url) \/ UnsetOrEmpty(env_key))) =>
        /\ created = <<>>
        /\ client = None
        /\ ctx.client = None
        /\ req = NoReq
        /\ served = 0
        /\ pc # "start" => (status = "raised" /\ exc = Exc("ValueError", MissingEnvMessage))

\* C10 witness: the lifespan raised with the URL set and only the key empty.
C10_Witness ==
    /\ prog = MCP
    /\ ~Falsy(env_url)
    /\ env_key = ""
    /\ status = "raised"
    /\ exc.type = "ValueError"

\* ------------------------------------------------------------- MCP server claims
BothSet == ~UnsetOrEmpty(env_url) /\ ~UnsetOrEmpty(env_key)

WriteTools == {"create_table_records", "update_table_records", "delete_table_records"}
FilterTools == {"read_table_rows", "update_table_records", "delete_table_records"}

\* The rows of a response's data, the entries of a filters argument.
Rows(d) == IF d = Nothing THEN <<>> ELSE d[1]
EntriesOf(f) == IF f = Nothing THEN <<>> ELSE f[1]

\* The calls of one kind among the calls of an invocation.
StepsOf(r, kind) == LET K(st) == st.m = kind IN SelectSeq(r.steps, K)

C11_LifespanInv ==
    (prog = MCP /\ BothSet) =>
        /\ Len(created) <= 1
        /\ pc \notin {"start", "create_client"} => created = << <<env_url, env_key>> >>
        /\ pc = "serving" => (ctx.client = client /\ client # None)
        /\ req.tool # None =>
              /\ created = << <<env_url, env_key>> >>
              /\ req.client = client
              /\ client # None

C11_LifespanStep ==
    (prog = MCP /\ req' # req) => (ctx' = ctx /\ client' = client /\ created' = created)

\* C11: with both variables set, supabase_lifespan calls create_client exactly
\* once, with (SUPABASE_URL, SUPABASE_SERVICE_KEY) in that order, and yields a
\* context whose client is the object create_client returned; the client is
\* constructed before any tool handler runs and every request inside the
\* scope uses that same handle.
C11_LifespanValidEnv == []C11_LifespanInv /\ [][C11_LifespanStep]_vars

\* C11 witness: two tools have run inside the scope on the constructed client.
C11_Witness ==
    /\ prog = MCP
    /\ BothSet
    /\ served = 2
    /\ req.tool # None
    /\ req.client = "client"
    /\ created = << <<env_url, env_key>> >>

\* C12: the three writing tools return status "success" iff the response data
\* is a non-empty list and "error" otherwise (None or empty list); count is the
\* number of rows of data and is 0 exactly when status is "error"; data is the
\* response data unchanged.
C12_WriteResultShape ==
    (req.tool \in WriteTools /\ ~req.raised) =>
        LET d == req.response
            r == req.result
        IN /\ r.status \in {"success", "error"}
           /\ r.status = "success" <=> (d # Nothing /\ Len(Rows(d)) > 0)
           /\ r.count = Len(Rows(d))
           /\ r.count = 0 <=> r.status = "error"
           /\ r.data = d

\* C12 witness: an update that matched no rows returned status "error".
C12_Witness ==
    /\ req.tool = "update_table_records"
    /\ ~req.raised
    /\ req.response = Some(<<>>)
    /\ req.result.status = "error"
    /\ req.result.count = 0

\* The equality filters of an invocation are the entries of its filters
\* argument, each applied once, in order.
FiltersMatch(r) ==
    LET es == StepsOf(r, "eq")
        en == EntriesOf(r.args.filters)
    IN /\ Len(es) = Len(en)
       /\ \A k \in 1..Len(es) : es[k].col = en[k][1] /\ es[k].val = en[k][2]

\* Every equality filter stands before the one execute, which is the last call.
FiltersBeforeExecute(r) ==
    /\ Len(StepsOf(r, "execute")) = 1
    /\ r.steps[Len(r.steps)].m = "execute"

\* C13 (as stated): in read_table_rows, update_table_records and
\* delete_table_records the equality filters applied are the entries of the
\* filters mapping, each once, all before the query is executed; filters None
\* or an empty mapping gives an unfiltered read, update or delete.
C13_FiltersApplied ==
    req.tool \in FilterTools =>
        /\ FiltersMatch(req)
        /\ FiltersBeforeExecute(req)

\* C13 (amended): as above whenever filters is a mapping, and for
\* read_table_rows also when it is None; update_table_records and
\* delete_table_records entered with filters None raise AttributeError at
\* filters.items(): no filter is applied and nothing is executed.
C13_FiltersAppliedToMappings ==
    req.tool \in FilterTools =>
        IF req.tool # "read_table_rows" /\ req.args.filters = Nothing
        THEN /\ req.raised
             /\ req.exc = "AttributeError"
             /\ StepsOf(req, "eq") = <<>>
             /\ StepsOf(req, "execute") = <<>>
        ELSE /\ FiltersMatch(req)
             /\ FiltersBeforeExecute(req)

\* C13 witness: a delete with two filters applied both and then executed.
C13_Witness ==
    /\ req.tool = "delete_table_records"
    /\ Len(EntriesOf(req.args.filters)) = 2
    /\ Len(StepsOf(req, "eq")) = 2
    /\ ~req.raised

\* C14: read_table_rows selects the given columns from the table named
\* table_name and returns exactly the data of the remote response.
C14_ReadPassThrough ==
    (req.tool = "read_table_rows" /\ ~req.raised) =>
        /\ req.result = [data |-> req.response]
        /\ req.steps[1].m = "table" /\ req.steps[1].col = req.args.table_name
        /\ req.steps[2].m = "select" /\ req.steps[2].col = req.args.columns

\* C14 witness: a read of two columns returned the None the response held.
C14_Witness ==
    /\ req.tool = "read_table_rows"
    /\ ~req.raised
    /\ req.args.columns = "id,name"
    /\ req.response = Nothing
    /\ req.result.data = Nothing

\* The operation each tool builds on the table.
Operations == {"select", "insert", "update", "delete"}
OperationOf(tool) ==
    CASE tool = "read_table_rows" -> "select"
      [] tool = "create_table_records" -> "insert"
      [] tool = "update_table_records" -> "update"
      [] tool = "delete_table_records" -> "delete"

OperationSteps(r) == LET K(st) == st.m \in Operations IN SelectSeq(r.steps, K)

\* The table is named once, with table_name, and one operation is built on it.
OneOperation(r) ==
    /\ Len(StepsOf(r, "table")) = 1
    /\ r.steps[1].m = "table" /\ r.steps[1].col = r.args.table_name
    /\ Len(OperationSteps(r)) = 1
    /\ r.steps[2].m = OperationOf(r.tool)

\* C15 (as stated): every invocation of a tool handler names the table once
\* with table_name, builds exactly one select/insert/update/delete on it and
\* calls execute exactly once, on every path through the handler.
C15_OneRemoteCall ==
    req.tool # None =>
        /\ OneOperation(req)
        /\ Len(StepsOf(req, "execute")) = 1

\* C15 (amended): every invocation names the table once and builds exactly one
\* operation on it; execute is called exactly once, except that
\* update_table_records and delete_table_records entered with filters None
\* raise AttributeError before execute and call it not at all.
C15_OneRemoteCallUnlessNoFilters ==
    req.tool # None =>
        /\ OneOperation(req)
        /\ IF req.tool \in {"update_table_records", "delete_table_records"}
              /\ req.args.filters = Nothing
           THEN StepsOf(req, "execute") = <<>> /\ req.raised /\ req.exc = "AttributeError"
           ELSE Len(StepsOf(req, "execute")) = 1 /\ req.steps[Len(req.steps)].m = "execute"

\* C15 witness: a create of two records issued one insert and one execute.
C15_Witness ==
    /\ req.tool = "create_table_records"
    /\ Len(req.args.records) = 2
    /\ Len(StepsOf(req, "insert")) = 1
    /\ Len(StepsOf(req, "execute")) = 1
    /\ ~req.raised

\* C16: whenever read_table_rows is given a limit (any integer, 0 included)
\* the limit is applied to the query with that value before it is executed;
\* only a limit of None applies none.
C16_LimitApplied ==
    req.tool = "read_table_rows" =>
        LET ls == StepsOf(req, "limit")
        IN IF req.args.limit = Nothing
           THEN ls = <<>>
           ELSE /\ Len(ls) = 1
                /\ ls[1].n = req.args.limit[1]
                /\ req.steps[Len(req.steps)].m = "execute"

\* An order_by that names a column: neither None nor the empty string.
Provided(o) == o # None /\ o # ""

\* The place of each kind of call in the construction of a read.
Rank(m) ==
    CASE m = "table" -> 0 [] m = "select" -> 1 [] m = "eq" -> 2
      [] m = "order" -> 3 [] m = "limit" -> 4 [] m = "execute" -> 5

\* C17: read_table_rows applies the ordering exactly once, with the given
\* column and the caller's ascending flag unchanged, iff order_by is provided;
\* the query is built filters first, then ordering, then limit, then a single
\* execute.
C17_Ordering ==
    req.tool = "read_table_rows" =>
        LET os == StepsOf(req, "order")
        IN /\ IF Provided(req.args.order_by)
              THEN /\ Len(os) = 1
                   /\ os[1].col = req.args.order_by
                   /\ os[1].asc = req.args.ascending
              ELSE os = <<>>
           /\ \A a, b \in 1..Len(req.steps) :
                 a < b => Rank(req.steps[a].m) <= Rank(req.steps[b].m)
           /\ Len(StepsOf(req, "execute")) = 1
           /\ req.steps[Len(req.steps)].m = "execute"

\* C17 witness: a descending read with two filters, an ordering and a limit.
C17_Witness ==
    /\ req.tool = "read_table_rows"
    /\ req.args.ascending = FALSE
    /\ Len(StepsOf(req, "eq")) = 2
    /\ Len(StepsOf(req, "order")) = 1
    /\ Len(StepsOf(req, "limit")) = 1
    /\ StepsOf(req, "order")[1].asc = FALSE

\* Every call of an invocation is built from the invocation's own arguments.
FromOwnArguments(r) ==
    \A k \in 1..Len(r.steps) :
        LET st == r.steps[k]
        IN CASE st.m = "table" -> st.col = r.args.table_name
             [] st.m = "select" -> st.col = r.args.columns
             [] st.m = "eq" -> \E e \in 1..Len(EntriesOf(r.args.filters)) :
                                  /\ st.col = EntriesOf(r.args.filters)[e][1]
                                  /\ st.val = EntriesOf(r.args.filters)[e][2]
             [] st.m = "order" -> st.col = r.args.order_by /\ st.asc = r.args.ascending
             [] st.m = "limit" -> r.args.limit = Some(st.n)
             [] st.m = "insert" -> st.val = r.args.records
             [] st.m = "update" -> st.val = r.args.updates
             [] st.m \in {"delete", "execute"} -> TRUE

\* One invocation: it leaves the lifespan context and the client alone, it
\* works on the client of the context, its query comes from its own arguments
\* and its result from its own response, and it does what the invocation
\* before it did when tool, arguments and response are the same.
C18_InvocationStep ==
    (prog = MCP /\ served' = served + 1) =>
        /\ ctx' = ctx
        /\ client' = client
        /\ req'.client = ctx.client
        /\ FromOwnArguments(req')
        /\ req'.result.data = req'.response
        /\ (req.tool = req'.tool /\ req.args = req'.args) =>
              /\ req'.raised = req.raised => req'.steps = req.steps
              /\ (req'.raised = req.raised /\ req'.response = req.response) =>
                    req'.result = req.result

IdsIn(table) == {r.id : r \in db[table]}

\* Some call at site `site` returned before the call at position k.
ReturnedBefore(site, k) == \E j \in 1..(k - 1) : calls[j].site = site /\ ~calls[j].raised

\* C19: in import_transcript the document insert is issued only after the
\* source insert succeeded and carries the id that insert returned; every
\* chunk insert is issued only after the document insert succeeded and carries
\* the id that insert returned; a failed source or document insert ends the
\* process with exit status 1 and no further remote operation.
C19_WriteOrder ==
    prog = IT =>
        \A k \in 1..Len(calls) :
            LET c == calls[k]
            IN /\ c.site = "document" =>
                     /\ ReturnedBefore("source", k)
                     /\ c.payload.source_id \in IdsIn("knowledge_sources")
                     /\ c.payload.source_id = source_id
               /\ c.site = "chunk" =>
                     /\ ReturnedBefore("document", k)
                     /\ c.payload.document_id \in IdsIn("knowledge_documents")
                     /\ c.payload.document_id = document_id
               /\ (c.site \in {"source", "document"} /\ c.raised) =>
                     (k = Len(calls) /\ status = "exit1")

\* C19 witness: a chunk insert was issued after source, document and video
\* record were written.
C19_Witness ==
    /\ prog = IT
    /\ Len(calls) >= 4
    /\ calls[1].site = "source" /\ calls[2].site = "document"
    /\ Last(calls).site = "chunk"
    /\ Last(calls).payload.document_id \in IdsIn("knowledge_documents")

\* The message that closes the visit of a file in import_youtube_data.
FileClosingMsgs ==
    {"Error reading transcript file", "Invalid transcript data",
     "Error creating source record", "Error creating document record",
     "Error creating YouTube record", "Finished processing video"}

\* The messages that close a file without any (further) remote operation.
FileFailureMsgs ==
    {"Error reading transcript file", "Invalid transcript data",
     "Error creating source record", "Error creating document record"}

FileClosings == LET K(m) == m.msg \in FileClosingMsgs IN SelectSeq(out, K)

InFileLoop == prog = YD /\ status = "running" /\ pc \in {"file", "source", "document", "chunks"}

C20_FilesInv ==
    prog = YD =>
        /\ \A k \in 1..Len(FileClosings) : FileClosings[k].arg = k
        /\ InFileLoop => (Len(FileClosings) = file_idx /\ file_idx <= Len(transcript_files))
        /\ (pc = "exited" /\ transcript_files # <<>>) =>
              (status = "exit0" /\ Len(FileClosings) = Len(transcript_files))
        /\ \A k \in 1..(Len(calls) - 1) :
              /\ (calls[k].site \in {"source", "document"} /\ calls[k].raised) =>
                    calls[k + 1].site = "source"
              /\ calls[k + 1].site = "source" =>
                    (calls[k].site = "source" => calls[k].raised)
              /\ calls[k + 1].site \in {"chunk", "youtube_insert"} =>
                    (calls[k].site \in {"document", "chunk"}
                       /\ (calls[k].site = "document" => ~calls[k].raised))

C20_FilesStep ==
    (InFileLoop /\ Len(out') = Len(out) + 1 /\ Last(out').msg \in FileFailureMsgs) =>
        /\ Len(calls') <= Len(calls) + 1
        /\ Len(calls') = Len(calls) + 1 => Last(calls').raised
        /\ db' = db
        /\ file_idx' = file_idx + 1
        /\ status' = "running"
        /\ pc' = "file"

\* C20: import_youtube_data visits every file found exactly once and the loop
\* terminates; a file that cannot be read, has empty video_info or chunks, or
\* whose source or document insert fails gets no further remote operation,
\* and processing goes on with the next file.
C20_EveryFileOnce ==
    /\ []C20_FilesInv
    /\ [][C20_FilesStep]_vars
    /\ (InFileLoop ~> (prog = YD /\ status = "exit0"))

\* C20 witness: the run ended normally after two files, the first of which
\* failed at its source insert while the second was imported.
C20_Witness ==
    /\ prog = YD
    /\ status = "exit0"
    /\ Len(transcript_files) = 2
    /\ Len(FileClosings) = 2
    /\ FileClosings[1].msg = "Error creating source record"
    /\ FileClosings[2].msg = "Finished processing video"

\* ----------------------------------------------------- import run claims
YoutubeSites == {"youtube_check", "youtube_insert"}

\* The youtube_videos step of this import_transcript run raised.
YoutubeStepFailed ==
    /\ prog = IT
    /\ \E k \in 1..Len(calls) : calls[k].site \in YoutubeSites /\ calls[k].raised

\* Every chunk of the document has had its insert attempted.
AllChunksAttempted ==
    /\ total_chunks >= 1
    /\ Len(ChunkCallsOf(document_id)) = total_chunks

C21_YoutubeInv ==
    YoutubeStepFailed =>
        /\ status # "exit1"
        /\ status = "raised" => transcript_text = NoneText
        /\ status = "exit0" => AllChunksAttempted

C21_YoutubeStep ==
    (prog = IT /\ Len(calls') = Len(calls) + 1
       /\ Last(calls').site \in YoutubeSites /\ Last(calls').raised) =>
        /\ status' = "running"
        /\ pc' = "chunk_text"
        /\ exc' = NoExc

Tables == {"knowledge_sources", "knowledge_documents", "knowledge_chunks", "youtube_videos"}

C22_OnlyInsertSelect ==
    prog \in Importers => \A k \in 1..Len(calls) : calls[k].op \in {"insert", "select"}

C22_RowsStay ==
    prog \in Importers => \A t \in Tables : db[t] \subseteq db'[t]

\* C22: the import scripts issue only insert and select operations, never an
\* update or delete, so every row inserted before a later failure stays in the
\* database unchanged until the end of the run.
C22_NoRecovery == []C22_OnlyInsertSelect /\ [][C22_RowsStay]_vars

\* C22 witness: import_transcript exited after its document insert failed, and
\* the source row it had inserted is still there.
C22_Witness ==
    /\ prog = IT
    /\ status = "exit1"
    /\ Len(calls) = 2
    /\ calls[2].site = "document" /\ calls[2].raised
    /\ \E r \in db.knowledge_sources : r.id = source_id

\* The youtube_videos rows of video v.
RowsOfVideo(d, v) == {r \in d.youtube_videos : r.youtube_id = v}

C23_AtMostOneRow ==
    prog = IT => \A v \in VideoIds : Cardinality(RowsOfVideo(db, v)) <= 1

C23_InsertAfterEmptySelect ==
    (prog = IT /\ db'.youtube_videos # db.youtube_videos) =>
        /\ calls # <<>>
        /\ Last(calls).site = "youtube_check"
        /\ ~Last(calls).raised
        /\ Last(calls).payload.youtube_id = video_id
        /\ RowsOfVideo(db, video_id) = {}
        /\ db.youtube_videos \subseteq db'.youtube_videos
        /\ Cardinality(db'.youtube_videos) = Cardinality(db.youtube_videos) + 1
        /\ \A r \in db'.youtube_videos \ db.youtube_videos : r.youtube_id = video_id

\* C23: import_transcript inserts a youtube_videos row only when its preceding
\* select by youtube_id returned no row; a run that starts from a table
\* without duplicates, as every run of a sequence of runs does, leaves at most
\* one row per youtube_id, although it inserts a new source row and a new
\* document row.
C23_OneVideoRow == []C23_AtMostOneRow /\ [][C23_InsertAfterEmptySelect]_vars

\* C23 witness: a run for a video an earlier import had stored inserted a new
\* source and a new document but no second video row.
C23_Witness ==
    /\ prog = IT
    /\ status = "exit0"
    /\ video_id = "v1"
    /\ \E r \in db.youtube_videos : r.youtube_id = "v1" /\ r.source_id # source_id
    /\ Cardinality(RowsOfVideo(db, "v1")) = 1
    /\ \E r \in db.knowledge_sources : r.id = source_id
    /\ \E r \in db.knowledge_documents : r.id = document_id

\* The chunk rows stored for document d.
ChunkRowsOf(d) == {r \in db.knowledge_chunks : r.document_id = d}

\* C24: when import_transcript finishes and reports "Created N chunks", N is
\* the planned total_chunks; the number of chunk rows inserted for the
\* document never exceeds N and equals N iff no chunk insert raised.
C24_CreatedCount ==
    /\ (prog = IT /\ pc = "chunks") => Cardinality(ChunkRowsOf(document_id)) <= total_chunks
    /\ (prog = IT /\ status = "exit0") =>
          LET N == Last(out).arg
              cs == ChunkCallsOf(document_id)
              stored == Cardinality(ChunkRowsOf(document_id))
          IN /\ Last(out).msg = "Created chunks"
             /\ N = total_chunks
             /\ N = Len(text_chunks)
             /\ stored <= N
             /\ stored = N <=> \A k \in 1..Len(cs) : ~cs[k].raised

\* C24 witness: the run reported three chunks and stored two of them.
C24_Witness ==
    /\ prog = IT
    /\ status = "exit0"
    /\ Last(out) = Msg("Created chunks", 3)
    /\ Cardinality(ChunkRowsOf(document_id)) = 2

\* ------------------------------------------------- chunk_text, further claims
\* The words of the k-th returned chunk (k = 1, 2, ...), the position in
\* text.split() before its first word, and the position of its last word.
ChunkWords(k) == split(ct_result[k])
StartOf(k) == (k - 1) * Stride
EndOf(k) == StartOf(k) + Len(ChunkWords(k))

\* Chunk k without the words it shares with its predecessor: the overlap, or
\* the whole chunk when it is shorter than that.
Fresh(k) ==
    IF k = 1 THEN ChunkWords(k)
    ELSE SubSeq(ChunkWords(k), Min(overlap, Len(ChunkWords(k))) + 1, Len(ChunkWords(k)))

RECURSIVE Rebuild(_)
Rebuild(k) == IF k = 0 THEN <<>> ELSE Rebuild(k - 1) \o Fresh(k)

\* C25: chunk_text loses no word: every word position of text.split() lies in
\* at least one chunk, every chunk holds words of the text in their original
\* order, and the chunks, each without the words it shares with its
\* predecessor, concatenate to text.split().
C25_NoWordLost ==
    Returned =>
        /\ \A p \in 1..WordCount :
              \E k \in 1..Len(ct_result) :
                  /\ StartOf(k) < p /\ p <= EndOf(k)
                  /\ ChunkWords(k)[p - StartOf(k)] = split(text)[p]
        /\ \A k \in 1..Len(ct_result) :
              /\ EndOf(k) <= WordCount
              /\ ChunkWords(k) = SubSeq(split(text), StartOf(k) + 1, EndOf(k))
        /\ Rebuild(Len(ct_result)) = split(text)

\* C25 witness: the last returned chunk lies wholly inside the overlap with
\* its predecessor and adds no word.
C25_Witness ==
    /\ Returned
    /\ WordCount > chunk_size
    /\ Len(ct_result) >= 3
    /\ Fresh(Len(ct_result)) = <<>>
    /\ Rebuild(Len(ct_result)) = split(text)

\* What chunk_text returns is a non-empty list, and no chunk of a text of more
\* than chunk_size words is without a word.
C27_ReturnsNonEmpty ==
    Returned =>
        /\ Len(ct_result) >= 1
        /\ WordCount > chunk_size =>
              \A k \in 1..Len(ct_result) : Len(ChunkWords(k)) >= 1

\* C27: chunk_text terminates on every input and returns a non-empty list for
\* 0 <= overlap < chunk_size; for a text of more than chunk_size words every
\* returned chunk holds at least one word.
C27_TerminatesNonEmpty == <>Returned /\ []C27_ReturnsNonEmpty

\* C27 witness: chunking ended on a text of more than chunk_size words whose
\* word count is a multiple of the stride; the last chunk is one word.
C27_Witness ==
    /\ Returned
    /\ WordCount > chunk_size
    /\ overlap >= 1
    /\ WordCount % Stride = 0
    /\ Len(ct_result) >= 3
    /\ Len(ChunkWords(Len(ct_result))) = 1

\* C26: within one document the chunk records an importer builds have
\* chunk_number 1, 2, ..., total_chunks, each once and in the order of the
\* chunks in the text; the chunk rows stored for a document have pairwise
\* distinct chunk_number values within 1..total_chunks.
C26_ChunkNumbers ==
    prog \in Importers =>
        /\ \A d \in ChunkedDocuments :
              LET cs == ChunkCallsOf(d)
              IN \A k \in 1..Len(cs) :
                    /\ cs[k].payload.chunk_number = k
                    /\ k <= cs[k].payload.total_chunks
                    /\ (d = document_id /\ pc = "chunks") =>
                          cs[k].payload.content =
                              (IF LoopList[k] = NoneText THEN <<>> ELSE LoopList[k])
        /\ \A r1, r2 \in db.knowledge_chunks :
              /\ r1.chunk_number \in 1..r1.total_chunks
              /\ (r1.document_id = r2.document_id /\ r1.chunk_number = r2.chunk_number)
                    => r1 = r2

\* C26 witness: rows 1 and 3 of a document of three chunks are stored, the
\* insert of chunk 2 having failed.
C26_Witness ==
    /\ prog = IT
    /\ status = "exit0"
    /\ total_chunks = 3
    /\ {r.chunk_number : r \in ChunkRowsOf(document_id)} = {1, 3}

=============================================================================
